---- MODULE Spec2Model ----
(***************************************************************************)
(* A model of YearMonth (src/src/YearMonth.js): the immutable year-month   *)
(* value of js-joda, its factories, its field/unit protocol and its        *)
(* plus/minus arithmetic.                                                  *)
(*                                                                         *)
(* An instance is a record [_year, _month].  Every method is an operator   *)
(* that takes the receiver and returns an outcome record: what the call    *)
(* returned or threw, and the receiver's fields after the call.  The       *)
(* actions apply one public operation each to an instance the client       *)
(* holds and keep the call and its outcome in `ret`.                       *)
(*                                                                         *)
(* The year range and the safe-integer range are scaled down, keeping      *)
(* their order: Year.MAX_VALUE < Integer.MAX_VALUE < 12 * Year.MAX_VALUE   *)
(* < MAX_SAFE_INTEGER, and 1000 * Year.MAX_VALUE < MAX_SAFE_INTEGER.       *)
(***************************************************************************)
EXTENDS Integers, Sequences, FiniteSets, TLC

VARIABLES this, ret, PARSER, FROM

vars == <<this, ret, PARSER, FROM>>

-----------------------------------------------------------------------------
(* Bounds *)

\* Year.MAX_VALUE (999999999 in the library), scaled.
Year_MAX_VALUE == 1

\* MathUtil.MAX_SAFE_INTEGER (2^53 - 1 in the library), scaled.
MAX_SAFE_INTEGER == 9007

\* The amounts a caller passes are -MaxAmount..MaxAmount and the two extremes.
MaxAmount == 13

\* The amounts a caller passes with a unit are -MaxUnitAmount..MaxUnitAmount
\* and the two extremes.
MaxUnitAmount == 1

\* How many times the module initialiser may run.
MaxInit == 2

-----------------------------------------------------------------------------
(* Library constants and helpers used by YearMonth *)

Year_MIN_VALUE == -Year_MAX_VALUE

MIN_SAFE_INTEGER == -MAX_SAFE_INTEGER

\* The bounds of a 32-bit int, scaled: above the year range, below the
\* proleptic-month range.
Integer_MAX_VALUE == 2 * Year_MAX_VALUE + 1

Integer_MIN_VALUE == -Integer_MAX_VALUE - 1

\* Math.MAX_SAFE_INTEGER is not a property of the JavaScript Math object:
\* the expression evaluates to undefined, which arithmetic turns into NaN.
\* NaN is a value of its own, outside every range.
NaN == MAX_SAFE_INTEGER + MAX_SAFE_INTEGER

Math_MAX_SAFE_INTEGER == NaN

NULL == [null |-> TRUE]

ChronoFields ==
    {"YEAR", "MONTH_OF_YEAR", "PROLEPTIC_MONTH", "YEAR_OF_ERA", "ERA", "DAY_OF_MONTH"}

\* A TemporalField that is not a ChronoField.
OtherFields == {"CUSTOM_FIELD"}

TemporalFields == ChronoFields \cup OtherFields

ChronoUnits ==
    {"MONTHS", "YEARS", "DECADES", "CENTURIES", "MILLENNIA", "ERAS", "DAYS"}

\* A TemporalUnit that is not a ChronoUnit.
OtherUnits == {"CUSTOM_UNIT"}

TemporalUnits == ChronoUnits \cup OtherUnits

\* ChronoField.range(): the declared bounds of a field.
FieldMin(field) ==
    CASE field = "YEAR" -> Year_MIN_VALUE
      [] field = "MONTH_OF_YEAR" -> 1
      [] field = "PROLEPTIC_MONTH" -> Year_MIN_VALUE * 12
      [] field = "YEAR_OF_ERA" -> 1
      [] field = "ERA" -> 0
      [] OTHER -> 1

FieldMax(field) ==
    CASE field = "YEAR" -> Year_MAX_VALUE
      [] field = "MONTH_OF_YEAR" -> 12
      [] field = "PROLEPTIC_MONTH" -> Year_MAX_VALUE * 12 + 11
      [] field = "YEAR_OF_ERA" -> Year_MAX_VALUE + 1
      [] field = "ERA" -> 1
      [] OTHER -> 31

\* ValueRange.isValidValue
isValidValue(lo, hi, value) == value # NaN /\ lo <= value /\ value <= hi

\* ValueRange.isIntValue: the range fits the narrow integer type.
isIntValue(lo, hi) == Integer_MIN_VALUE <= lo /\ hi <= Integer_MAX_VALUE

\* ValueRange.isValidIntValue
isValidIntValue(lo, hi, value) == isIntValue(lo, hi) /\ isValidValue(lo, hi, value)

\* ChronoField.checkValidValue passes (it throws DateTimeException otherwise).
checkValidValue(field, value) == isValidValue(FieldMin(field), FieldMax(field), value)

\* ChronoField.checkValidIntValue passes (it throws DateTimeException otherwise).
checkValidIntValue(field, value) ==
    isValidIntValue(FieldMin(field), FieldMax(field), value)

\* Outcomes of a call that yields a number.
Val(v) == [kind |-> "ok", val |-> v, err |-> ""]

Fail(e) == [kind |-> "err", val |-> 0, err |-> e]

\* MathUtil.floorDiv: Math.floor(x / y), for y > 0.
floorDiv(x, y) == IF x = NaN THEN NaN ELSE x \div y

\* MathUtil.floorMod: x - floorDiv(x, y) * y.
floorMod(x, y) == IF x = NaN THEN NaN ELSE x - floorDiv(x, y) * y

\* The JavaScript + on numbers.
JsAdd(x, y) == IF x = NaN \/ y = NaN THEN NaN ELSE x + y

\* MathUtil.safeAdd: overflow-checked addition.
safeAdd(x, y) ==
    IF x + y > MAX_SAFE_INTEGER \/ x + y < MIN_SAFE_INTEGER
    THEN Fail("ArithmeticException")
    ELSE Val(x + y)

\* MathUtil.safeMultiply: overflow-checked multiplication.
safeMultiply(x, y) ==
    IF x * y > MAX_SAFE_INTEGER \/ x * y < MIN_SAFE_INTEGER
    THEN Fail("ArithmeticException")
    ELSE Val(x * y)

-----------------------------------------------------------------------------
(* Outcomes of a call that yields an instance *)

\* The call returned obj; ref says whether obj is the receiver itself
\* ("this") or another object ("new"); self is the receiver after the call.
Ok(self, ref, obj) ==
    [kind |-> "ok", this |-> self, ref |-> ref, obj |-> obj, err |-> "",
     via |-> "direct"]

\* The call threw e.
Throw(self, e) ==
    [kind |-> "err", this |-> self, ref |-> "none", obj |-> NULL, err |-> e,
     via |-> "direct"]

\* A call handed to a collaborator (an adjuster, an amount, a field or a unit
\* that is not handled here): the collaborator's answer ext is the outcome.
External(self, ext) ==
    CASE ext.kind = "err" ->
            [Throw(self, ext.err) EXCEPT !.via = "external"]
      [] ext.kind = "this" ->
            [Ok(self, "this", self) EXCEPT !.via = "external"]
      [] OTHER ->
            [Ok(self, "new", [_year |-> ext.year, _month |-> ext.month])
                EXCEPT !.via = "external"]

\* o.f(...) for an outcome o of a previous call: a method call chained on
\* the returned object, o2 being the outcome of f on o.obj.
Chain(o, o2) ==
    IF o.kind = "err" THEN o
    ELSE LET v == IF o.via = "external" \/ o2.via = "external"
                  THEN "external" ELSE "direct"
         IN  IF o.ref = "this"
             THEN [o2 EXCEPT !.via = v]
             ELSE IF o2.kind = "err"
                  THEN [Throw(o.this, o2.err) EXCEPT !.via = v]
                  ELSE [Ok(o.this, "new", o2.obj) EXCEPT !.via = v]

-----------------------------------------------------------------------------
(* YearMonth: construction *)

\* new YearMonth(year, month): stores its arguments.
YearMonth(year, month) == [_year |-> year, _month |-> month]

\* The Month constants, in calendar order.
Months ==
    <<"JANUARY", "FEBRUARY", "MARCH", "APRIL", "MAY", "JUNE", "JULY",
      "AUGUST", "SEPTEMBER", "OCTOBER", "NOVEMBER", "DECEMBER">>

\* Month.value(): the number 1..12 of a Month constant.
Month_value(month) == CHOOSE i \in 1..12 : Months[i] = month

\* A variant that forgets the month check.
_ofYearMonthNumber_noMonthCheck(year, month) ==
    IF ~checkValidValue("YEAR", year) THEN Throw(NULL, "DateTimeException")
    ELSE Ok(NULL, "new", YearMonth(year, month))

_ofYearMonthNumber(year, month) ==
    IF ~checkValidValue("YEAR", year) THEN Throw(NULL, "DateTimeException")
    ELSE IF ~checkValidValue("MONTH_OF_YEAR", month)
         THEN Throw(NULL, "DateTimeException")
         ELSE Ok(NULL, "new", YearMonth(year, month))

_ofYearMonth(year, month) == _ofYearMonthNumber(year, Month_value(month))

\* YearMonth.of(year, month); isMonth: the second argument is a Month.
of(year, month, isMonth) ==
    IF isMonth THEN _ofYearMonth(year, month) ELSE _ofYearMonthNumber(year, month)

\* YearMonth.now(...): date is what LocalDate.now(clock) answers, its month
\* a Month constant.
_nowClock(date) == of(date.year, date.month, TRUE)

\* A temporal accessor handed to from(): a YearMonth (obj), or a foreign
\* object whose get(YEAR) and get(MONTH_OF_YEAR) answer year and month.
AccessorOf(obj) ==
    [isYearMonth |-> TRUE, obj |-> obj, year |-> Fail(""), month |-> Fail("")]

Foreign(year, month) ==
    [isYearMonth |-> FALSE, obj |-> NULL, year |-> year, month |-> month]

NoAccessor == Foreign(Fail(""), Fail(""))

\* A variant without the try/catch: what the accessor or of() throws
\* reaches the caller.
from_noCatch(temporal) ==
    IF temporal.isYearMonth THEN Ok(NULL, "arg", temporal.obj)
    ELSE IF temporal.year.kind = "err" THEN Throw(NULL, temporal.year.err)
         ELSE IF temporal.month.kind = "err" THEN Throw(NULL, temporal.month.err)
              ELSE of(temporal.year.val, temporal.month.val, FALSE)

from(temporal) ==
    IF temporal.isYearMonth THEN Ok(NULL, "arg", temporal.obj)
    ELSE \* try { of(temporal.get(YEAR), temporal.get(MONTH_OF_YEAR)) }
         LET tried ==
                 IF temporal.year.kind = "err"
                 THEN Throw(NULL, temporal.year.err)
                 ELSE IF temporal.month.kind = "err"
                      THEN Throw(NULL, temporal.month.err)
                      ELSE of(temporal.year.val, temporal.month.val, FALSE)
         IN  \* catch (ex) { throw new DateTimeException(...) }
             IF tried.kind = "err" THEN Throw(NULL, "DateTimeException")
             ELSE tried

\* formatter and query are 0 while undefined; parsed is what the formatter
\* makes of the text: a parse error, or an accessor it hands to the query.
_parseStringFormatter(parsed, formatter, query) ==
    IF formatter = 0 THEN Throw(NULL, "NullPointerException")
    ELSE IF parsed.kind = "err" THEN Throw(NULL, "DateTimeParseException")
         ELSE IF query = 0 THEN Throw(NULL, "TypeError")
              ELSE from(parsed.t)

_parseString(parsed, parser, query) == _parseStringFormatter(parsed, parser, query)

-----------------------------------------------------------------------------
(* YearMonth: queries *)

_isSupportedField(field, extB) ==
    IF field \in ChronoFields
    THEN field = "YEAR" \/ field = "MONTH_OF_YEAR" \/ field = "PROLEPTIC_MONTH"
            \/ field = "YEAR_OF_ERA" \/ field = "ERA"
    ELSE extB

_isSupportedUnit(unit, extB) ==
    IF unit \in ChronoUnits
    THEN unit = "MONTHS" \/ unit = "YEARS" \/ unit = "DECADES"
            \/ unit = "CENTURIES" \/ unit = "MILLENNIA" \/ unit = "ERAS"
    ELSE extB

\* isSupported(fieldOrUnit): extB is the answer of isSupportedBy(this).
isSupported(token, extB) ==
    IF token \in TemporalFields THEN _isSupportedField(token, extB)
    ELSE _isSupportedUnit(token, extB)

Rng(lo, hi) == [kind |-> "ok", lo |-> lo, hi |-> hi, err |-> ""]

RngFail(e) == [kind |-> "err", lo |-> 0, hi |-> 0, err |-> e]

\* Temporal.range (the inherited default): extR is the answer of
\* field.rangeRefinedBy(this).
Temporal_range(self, field, extR) ==
    IF field \in ChronoFields
    THEN IF isSupported(field, FALSE)
         THEN Rng(FieldMin(field), FieldMax(field))
         ELSE RngFail("UnsupportedTemporalTypeException")
    ELSE extR

\* A variant with the same year-of-era range in both eras.
range_oneEra(self, field, extR) ==
    IF field = "YEAR_OF_ERA" THEN Rng(1, Year_MAX_VALUE)
    ELSE Temporal_range(self, field, extR)

range(self, field, extR) ==
    IF field = "YEAR_OF_ERA"
    THEN IF self._year <= 0 THEN Rng(1, Year_MAX_VALUE + 1)
                            ELSE Rng(1, Year_MAX_VALUE)
    ELSE Temporal_range(self, field, extR)

_getProlepticMonth(self) ==
    LET p == safeMultiply(self._year, 12)
    IN  IF p.kind = "err" THEN p ELSE safeAdd(p.val, self._month - 1)

\* A variant that splits the eras at year 0 instead of year 1.
getLong_eraAtZero(self, field, extV) ==
    IF field \in ChronoFields
    THEN CASE field = "MONTH_OF_YEAR" -> Val(self._month)
           [] field = "PROLEPTIC_MONTH" -> _getProlepticMonth(self)
           [] field = "YEAR_OF_ERA" ->
                Val(IF self._year < 0 THEN 1 - self._year ELSE self._year)
           [] field = "YEAR" -> Val(self._year)
           [] field = "ERA" -> Val(IF self._year < 0 THEN 0 ELSE 1)
           [] OTHER -> Fail("UnsupportedTemporalTypeException")
    ELSE extV

\* extV is the answer of field.getFrom(this).
getLong(self, field, extV) ==
    IF field \in ChronoFields
    THEN CASE field = "MONTH_OF_YEAR" -> Val(self._month)
           [] field = "PROLEPTIC_MONTH" -> _getProlepticMonth(self)
           [] field = "YEAR_OF_ERA" ->
                Val(IF self._year < 1 THEN 1 - self._year ELSE self._year)
           [] field = "YEAR" -> Val(self._year)
           [] field = "ERA" -> Val(IF self._year < 1 THEN 0 ELSE 1)
           [] OTHER -> Fail("UnsupportedTemporalTypeException")
    ELSE extV

\* A variant that returns the wide value without the narrow-range check.
get_unchecked(self, field, extR, extV) ==
    LET r == range(self, field, extR)
    IN  IF r.kind = "err" THEN Fail(r.err) ELSE getLong(self, field, extV)

get(self, field, extR, extV) ==
    LET r == range(self, field, extR)
    IN  IF r.kind = "err" THEN Fail(r.err)
        ELSE LET v == getLong(self, field, extV)
             IN  IF v.kind = "err" THEN v
                 ELSE IF isValidIntValue(r.lo, r.hi, v.val) THEN v
                      ELSE Fail("DateTimeException")

year(self) == self._year

monthValue(self) == self._month

\* other: "same" (the receiver itself), "YearMonth" (another instance, obj)
\* or "other" (anything else, null included).
equals(self, other) ==
    IF other.kind = "same" THEN TRUE
    ELSE IF other.kind = "YearMonth"
         THEN year(self) = year(other.obj) /\ monthValue(self) = monthValue(other.obj)
         ELSE FALSE

-----------------------------------------------------------------------------
(* YearMonth: adjustment *)

\* A variant that stores the new fields in the receiver and returns it.
_withYearMonth_inPlace(self, newYear, newMonth) ==
    Ok(YearMonth(newYear, newMonth), "this", YearMonth(newYear, newMonth))

_withYearMonth(self, newYear, newMonth) ==
    IF self._year = newYear /\ self._month = newMonth
    THEN Ok(self, "this", self)
    ELSE Ok(self, "new", YearMonth(newYear, newMonth))

withYear(self, newYear) ==
    IF ~checkValidValue("YEAR", newYear) THEN Throw(self, "DateTimeException")
    ELSE _withYearMonth(self, newYear, self._month)

withMonth(self, newMonth) ==
    IF ~checkValidValue("MONTH_OF_YEAR", newMonth)
    THEN Throw(self, "DateTimeException")
    ELSE _withYearMonth(self, self._year, newMonth)

\* A variant without the range check on the new year.
plusYears_unchecked(self, yearsToAdd) ==
    IF yearsToAdd = 0 THEN Ok(self, "this", self)
    ELSE _withYearMonth(self, JsAdd(self._year, yearsToAdd), self._month)

plusYears(self, yearsToAdd) ==
    IF yearsToAdd = 0 THEN Ok(self, "this", self)
    ELSE LET newYear == JsAdd(self._year, yearsToAdd)
         IN  IF ~checkValidIntValue("YEAR", newYear)
             THEN Throw(self, "DateTimeException")
             ELSE _withYearMonth(self, newYear, self._month)

\* MathUtil.intDiv and MathUtil.intMod: division that rounds towards zero.
intDiv(x, y) == IF x >= 0 THEN x \div y ELSE -((-x) \div y)

intMod(x, y) == x - intDiv(x, y) * y

\* A variant that divides towards zero.
plusMonths_truncating(self, monthsToAdd) ==
    IF monthsToAdd = 0 THEN Ok(self, "this", self)
    ELSE LET monthCount == (self._year * 12) + (self._month - 1)
             calcMonths == JsAdd(monthCount, monthsToAdd)
             newYear == intDiv(calcMonths, 12)
             newMonth == intMod(calcMonths, 12) + 1
         IN  IF ~checkValidIntValue("YEAR", newYear)
             THEN Throw(self, "DateTimeException")
             ELSE _withYearMonth(self, newYear, newMonth)

plusMonths(self, monthsToAdd) ==
    IF monthsToAdd = 0 THEN Ok(self, "this", self)
    ELSE LET monthCount == (self._year * 12) + (self._month - 1)
             calcMonths == JsAdd(monthCount, monthsToAdd)
             newYear == floorDiv(calcMonths, 12)
             newMonth == floorMod(calcMonths, 12) + 1
         IN  IF ~checkValidIntValue("YEAR", newYear)
             THEN Throw(self, "DateTimeException")
             ELSE _withYearMonth(self, newYear, newMonth)

_withAdjuster(self, ext) == External(self, ext)

\* A variant that adds the new proleptic month instead of the difference.
_withFieldValue_absoluteMonths(self, field, newValue, ext) ==
    IF field \in ChronoFields
    THEN IF ~checkValidValue(field, newValue)
         THEN Throw(self, "DateTimeException")
         ELSE CASE field = "MONTH_OF_YEAR" -> withMonth(self, newValue)
                [] field = "PROLEPTIC_MONTH" ->
                     LET pm == getLong(self, "PROLEPTIC_MONTH", Fail(""))
                     IN  IF pm.kind = "err" THEN Throw(self, pm.err)
                         ELSE plusMonths(self, newValue)
                [] field = "YEAR_OF_ERA" ->
                     withYear(self, IF self._year < 1 THEN 1 - newValue
                                                      ELSE newValue)
                [] field = "YEAR" -> withYear(self, newValue)
                [] field = "ERA" ->
                     IF getLong(self, "ERA", Fail("")).val = newValue
                     THEN Ok(self, "this", self)
                     ELSE withYear(self, 1 - self._year)
                [] OTHER -> Throw(self, "UnsupportedTemporalTypeException")
    ELSE External(self, ext)

\* A variant that takes the year-of-era as the proleptic year in both eras.
_withFieldValue_ignoresEra(self, field, newValue, ext) ==
    IF field \in ChronoFields
    THEN IF ~checkValidValue(field, newValue)
         THEN Throw(self, "DateTimeException")
         ELSE CASE field = "MONTH_OF_YEAR" -> withMonth(self, newValue)
                [] field = "PROLEPTIC_MONTH" ->
                     LET pm == getLong(self, "PROLEPTIC_MONTH", Fail(""))
                     IN  IF pm.kind = "err" THEN Throw(self, pm.err)
                         ELSE plusMonths(self, newValue - pm.val)
                [] field = "YEAR_OF_ERA" ->
                     withYear(self, newValue)
                [] field = "YEAR" -> withYear(self, newValue)
                [] field = "ERA" ->
                     IF getLong(self, "ERA", Fail("")).val = newValue
                     THEN Ok(self, "this", self)
                     ELSE withYear(self, 1 - self._year)
                [] OTHER -> Throw(self, "UnsupportedTemporalTypeException")
    ELSE External(self, ext)

\* A variant that flips the era by negating the year.
_withFieldValue_negatesYear(self, field, newValue, ext) ==
    IF field \in ChronoFields
    THEN IF ~checkValidValue(field, newValue)
         THEN Throw(self, "DateTimeException")
         ELSE CASE field = "MONTH_OF_YEAR" -> withMonth(self, newValue)
                [] field = "PROLEPTIC_MONTH" ->
                     LET pm == getLong(self, "PROLEPTIC_MONTH", Fail(""))
                     IN  IF pm.kind = "err" THEN Throw(self, pm.err)
                         ELSE plusMonths(self, newValue - pm.val)
                [] field = "YEAR_OF_ERA" ->
                     withYear(self, IF self._year < 1 THEN 1 - newValue
                                                      ELSE newValue)
                [] field = "YEAR" -> withYear(self, newValue)
                [] field = "ERA" ->
                     IF getLong(self, "ERA", Fail("")).val = newValue
                     THEN Ok(self, "this", self)
                     ELSE withYear(self, 0 - self._year)
                [] OTHER -> Throw(self, "UnsupportedTemporalTypeException")
    ELSE External(self, ext)

\* ext is the answer of field.adjustInto(this, newValue).
_withFieldValue(self, field, newValue, ext) ==
    IF field \in ChronoFields
    THEN IF ~checkValidValue(field, newValue)
         THEN Throw(self, "DateTimeException")
         ELSE CASE field = "MONTH_OF_YEAR" -> withMonth(self, newValue)
                [] field = "PROLEPTIC_MONTH" ->
                     LET pm == getLong(self, "PROLEPTIC_MONTH", Fail(""))
                     IN  IF pm.kind = "err" THEN Throw(self, pm.err)
                         ELSE plusMonths(self, newValue - pm.val)
                [] field = "YEAR_OF_ERA" ->
                     withYear(self, IF self._year < 1 THEN 1 - newValue
                                                      ELSE newValue)
                [] field = "YEAR" -> withYear(self, newValue)
                [] field = "ERA" ->
                     IF getLong(self, "ERA", Fail("")).val = newValue
                     THEN Ok(self, "this", self)
                     ELSE withYear(self, 1 - self._year)
                [] OTHER -> Throw(self, "UnsupportedTemporalTypeException")
    ELSE External(self, ext)

_plusAmount(self, ext) == External(self, ext)

\* ext is the answer of unit.addTo(this, amountToAdd).  The switch is
\* entered for a ChronoField only, and no unit is one.
_plusAmountUnit(self, amountToAdd, unit, ext) ==
    IF unit \in ChronoFields
    THEN CASE unit = "MONTHS" -> plusMonths(self, amountToAdd)
           [] unit = "YEARS" -> plusYears(self, amountToAdd)
           [] unit \in {"DECADES", "CENTURIES", "MILLENNIA"} ->
                LET p == safeMultiply(amountToAdd,
                            CASE unit = "DECADES" -> 10
                              [] unit = "CENTURIES" -> 100
                              [] OTHER -> 1000)
                IN  IF p.kind = "err" THEN Throw(self, p.err)
                    ELSE plusYears(self, p.val)
           [] unit = "ERAS" ->
                LET e == safeAdd(getLong(self, "ERA", Fail("")).val, amountToAdd)
                IN  IF e.kind = "err" THEN Throw(self, e.err)
                    ELSE _withFieldValue(self, "ERA", e.val, ext)
           [] OTHER -> Throw(self, "UnsupportedTemporalTypeException")
    ELSE External(self, ext)

_minusAmount(self, ext) == External(self, ext)

\* The amount _minusAmountUnit hands to its first _plusAmountUnit call.
_minusAmountUnit_firstAmount(amountToSubtract) ==
    IF amountToSubtract = MIN_SAFE_INTEGER THEN MAX_SAFE_INTEGER
    ELSE -amountToSubtract

\* ext2 is the answer of the second unit.addTo of the boundary case.
_minusAmountUnit(self, amountToSubtract, unit, ext, ext2) ==
    IF amountToSubtract = MIN_SAFE_INTEGER
    THEN LET first == _plusAmountUnit(self,
                          _minusAmountUnit_firstAmount(amountToSubtract), unit, ext)
         IN  Chain(first, _plusAmountUnit(first.obj, 1, unit, ext2))
    ELSE _plusAmountUnit(self, _minusAmountUnit_firstAmount(amountToSubtract),
                         unit, ext)

\* The amount minusYears hands to its first plusYears call: the boundary
\* case passes MIN_SAFE_INTEGER on.
minusYears_firstAmount(yearsToSubtract) ==
    IF yearsToSubtract = MIN_SAFE_INTEGER THEN MIN_SAFE_INTEGER
    ELSE -yearsToSubtract

\* The amount minusMonths hands to its first plusMonths call: the boundary
\* case reads MAX_SAFE_INTEGER from Math, which has no such property.
minusMonths_firstAmount(monthsToSubtract) ==
    IF monthsToSubtract = MIN_SAFE_INTEGER THEN Math_MAX_SAFE_INTEGER
    ELSE -monthsToSubtract

\* A variant that forgets to negate.
minusYears_noNegate(self, yearsToSubtract) ==
    IF yearsToSubtract = MIN_SAFE_INTEGER
    THEN LET first == plusYears(self, MIN_SAFE_INTEGER)
         IN  Chain(first, plusYears(first.obj, 1))
    ELSE plusYears(self, yearsToSubtract)

minusYears(self, yearsToSubtract) ==
    IF yearsToSubtract = MIN_SAFE_INTEGER
    THEN LET first == plusYears(self, minusYears_firstAmount(yearsToSubtract))
         IN  Chain(first, plusYears(first.obj, 1))
    ELSE plusYears(self, minusYears_firstAmount(yearsToSubtract))

\* A variant that subtracts one month too few.
minusMonths_offByOne(self, monthsToSubtract) ==
    IF monthsToSubtract = MIN_SAFE_INTEGER
    THEN LET first == plusMonths(self, Math_MAX_SAFE_INTEGER)
         IN  Chain(first, plusMonths(first.obj, 1))
    ELSE plusMonths(self, 1 - monthsToSubtract)

minusMonths(self, monthsToSubtract) ==
    IF monthsToSubtract = MIN_SAFE_INTEGER
    THEN LET first == plusMonths(self, minusMonths_firstAmount(monthsToSubtract))
         IN  Chain(first, plusMonths(first.obj, 1))
    ELSE plusMonths(self, minusMonths_firstAmount(monthsToSubtract))

-----------------------------------------------------------------------------
(* YearMonth: the overloaded entry points *)

\* with(...): nargs is arguments.length; field is the first argument when it
\* is a TemporalField and "" when it is not; a1 and a2 are the numbers passed.
with(self, nargs, field, a1, a2, ext) ==
    IF nargs = 1 THEN _withAdjuster(self, ext)
    ELSE IF nargs = 2 /\ field \in TemporalFields
         THEN _withFieldValue(self, field, a2, ext)
         ELSE _withYearMonth(self, a1, a2)

plus(self, nargs, amountToAdd, unit, ext) ==
    IF nargs = 1 THEN _plusAmount(self, ext)
    ELSE _plusAmountUnit(self, amountToAdd, unit, ext)

minus(self, nargs, amountToSubtract, unit, ext, ext2) ==
    IF nargs = 1 THEN _minusAmount(self, ext)
    ELSE _minusAmountUnit(self, amountToSubtract, unit, ext, ext2)

\* now(), now(zone), now(clock): each reads a date from a clock.
now(date) == _nowClock(date)

parse(nargs, parsed, formatter, parser, query) ==
    IF nargs = 1 THEN _parseString(parsed, parser, query)
    ELSE _parseStringFormatter(parsed, formatter, query)

-----------------------------------------------------------------------------
(* The inputs of the calls *)

YearInputs == (Year_MIN_VALUE - 1)..(Year_MAX_VALUE + 1)

MonthInputs == 0..13

Amounts == (-MaxAmount..MaxAmount) \cup {MIN_SAFE_INTEGER, MAX_SAFE_INTEGER}

UnitAmounts ==
    (-MaxUnitAmount..MaxUnitAmount) \cup {MIN_SAFE_INTEGER, MAX_SAFE_INTEGER}

\* The values passed with a ChronoField: every value of its range and one
\* beyond each end.  A custom field answers by itself, whatever the value.
FieldValues(field) ==
    IF field \in ChronoFields THEN (FieldMin(field) - 1)..(FieldMax(field) + 1)
    ELSE {0}

\* What a collaborator may throw.
ExtErrors == {"DateTimeException", "ArithmeticException"}

NoExt == [kind |-> "none", year |-> 0, month |-> 0, err |-> ""]

\* What a collaborator asked for an instance may answer: it throws, returns
\* the instance it was given, or returns an instance it got from of().
ExtResponses ==
    {[NoExt EXCEPT !.kind = "err", !.err = e] : e \in ExtErrors}
        \cup {[NoExt EXCEPT !.kind = "this"]}
        \cup {[NoExt EXCEPT !.kind = "new", !.year = o._year, !.month = o._month] :
                 o \in {YearMonth(Year_MIN_VALUE, 1), YearMonth(Year_MAX_VALUE, 12)}}

\* What a collaborator asked for a number may answer.
ValResponses ==
    {Fail(e) : e \in ExtErrors} \cup {Val(v) : v \in {0, Integer_MAX_VALUE + 1}}

\* What a collaborator asked for a range may answer.
RngResponses == {RngFail(e) : e \in ExtErrors} \cup {Rng(0, Integer_MAX_VALUE)}

\* The foreign accessors handed to from().
Accessors ==
    {Foreign(y, m) :
        y \in {Fail(e) : e \in ExtErrors} \cup {Val(v) : v \in YearInputs},
        m \in {Fail(e) : e \in ExtErrors} \cup {Val(v) : v \in MonthInputs}}

\* What a formatter makes of a text: it fails, or reads a year and a month
\* (the first and last month, and one beyond each).
Parsed ==
    {[kind |-> "err", t |-> NoAccessor]}
        \cup {[kind |-> "ok", t |-> Foreign(Val(y), Val(m))] :
                 y \in YearInputs, m \in {0, 1, 12, 13}}

\* A formatter of the caller's own.
OwnFormatter == MaxInit + 1

-----------------------------------------------------------------------------
(* The state machine *)

\* No call: the client is not looking at any outcome.
NoRet ==
    [op |-> "", recv |-> NULL, nargs |-> 0, y |-> 0, m |-> 0, month |-> "",
     n |-> 0, first |-> 0, field |-> "", unit |-> "", t |-> NoAccessor, other |-> "",
     ext |-> NoExt, ext2 |-> NoExt, extV |-> Fail(""), extR |-> RngFail(""),
     extB |-> FALSE, formatter |-> 0,
     kind |-> "", ref |-> "", obj |-> NULL, err |-> "", via |-> "",
     val |-> 0, flag |-> FALSE, lo |-> 0, hi |-> 0]

\* The parts of ret a call fills in.
InstOut(out) ==
    [kind |-> out.kind, ref |-> out.ref, obj |-> out.obj, err |-> out.err,
     via |-> out.via]

ValOut(out) == [kind |-> out.kind, val |-> out.val, err |-> out.err]

RngOut(out) == [kind |-> out.kind, lo |-> out.lo, hi |-> out.hi, err |-> out.err]

BoolOut(b) == [kind |-> "ok", flag |-> b]

Idle == ret.op = ""

Init ==
    /\ this = NULL
    /\ ret = NoRet
    /\ PARSER = 0
    /\ FROM = 0

\* A static call: no receiver.
Static(op, in, out) ==
    /\ Idle
    /\ ret' = [op |-> op] @@ in @@ InstOut(out) @@ NoRet
    /\ UNCHANGED <<this, PARSER, FROM>>

\* A call on the instance the client holds that yields an instance.
Method(op, in, out) ==
    /\ ret' = [op |-> op, recv |-> this] @@ in @@ InstOut(out) @@ NoRet
    /\ this' = out.this
    /\ UNCHANGED <<PARSER, FROM>>

\* A call on the instance the client holds that yields a value.
Query(op, in, out) ==
    /\ ret' = [op |-> op, recv |-> this] @@ in @@ out @@ NoRet
    /\ UNCHANGED <<this, PARSER, FROM>>

HasInstance == Idle /\ this # NULL

_init ==
    /\ Idle
    /\ PARSER < MaxInit
    /\ PARSER' = PARSER + 1
    /\ FROM' = FROM + 1
    /\ UNCHANGED <<this, ret>>

Now ==
    \E y \in Year_MIN_VALUE..Year_MAX_VALUE, i \in 1..12 :
        Static("now", [y |-> y, month |-> Months[i]],
               now([year |-> y, month |-> Months[i]]))

OfNumber ==
    \E y \in YearInputs, m \in MonthInputs :
        Static("of", [y |-> y, m |-> m], of(y, m, FALSE))

OfMonth ==
    \E y \in YearInputs, i \in 1..12 :
        Static("of", [y |-> y, month |-> Months[i]], of(y, Months[i], TRUE))

From ==
    \E t \in Accessors \cup {AccessorOf(o) : o \in {this} \ {NULL}} :
        Static("from", [t |-> t], from(t))

Parse ==
    \E nargs \in 1..2, parsed \in Parsed :
        LET formatter == IF nargs = 1 THEN PARSER ELSE OwnFormatter
        IN  Static("parse", [nargs |-> nargs, t |-> parsed.t,
                             other |-> parsed.kind, formatter |-> formatter],
                   parse(nargs, parsed, OwnFormatter, PARSER, FROM))

IsSupported ==
    /\ HasInstance
    /\ \E token \in TemporalFields \cup TemporalUnits, extB \in BOOLEAN :
        /\ token \in ChronoFields \cup ChronoUnits => extB = FALSE
        /\ Query("isSupported",
                 [field |-> IF token \in TemporalFields THEN token ELSE "",
                  unit |-> IF token \in TemporalUnits THEN token ELSE "",
                  extB |-> extB],
                 BoolOut(isSupported(token, extB)))

Range ==
    /\ HasInstance
    /\ \E field \in TemporalFields, extR \in RngResponses \cup {RngFail("")} :
        /\ (field \in OtherFields) = (extR # RngFail(""))
        /\ Query("range", [field |-> field, extR |-> extR],
                 RngOut(range(this, field, extR)))

Get ==
    /\ HasInstance
    /\ \E field \in TemporalFields, extR \in RngResponses \cup {RngFail("")},
          extV \in ValResponses \cup {Fail("")} :
        /\ (field \in OtherFields) = (extR # RngFail(""))
        /\ (field \in OtherFields) = (extV # Fail(""))
        /\ Query("get", [field |-> field, extR |-> extR, extV |-> extV],
                 ValOut(get(this, field, extR, extV)))

GetLong ==
    /\ HasInstance
    /\ \E field \in TemporalFields, extV \in ValResponses \cup {Fail("")} :
        /\ (field \in OtherFields) = (extV # Fail(""))
        /\ Query("getLong", [field |-> field, extV |-> extV],
                 ValOut(getLong(this, field, extV)))

Equals ==
    /\ HasInstance
    /\ \E other \in {[kind |-> "same", obj |-> this], [kind |-> "other", obj |-> NULL]}
                       \cup {[kind |-> "YearMonth", obj |-> YearMonth(y, m)] :
                                y \in Year_MIN_VALUE..Year_MAX_VALUE, m \in 1..12} :
        Query("equals", [other |-> other.kind, t |-> AccessorOf(other.obj)],
              BoolOut(equals(this, other)))

WithAdjuster ==
    /\ HasInstance
    /\ \E ext \in ExtResponses :
        Method("with", [nargs |-> 1, ext |-> ext], with(this, 1, "", 0, 0, ext))

WithFieldValue ==
    /\ HasInstance
    /\ \E field \in TemporalFields, ext \in ExtResponses \cup {NoExt} :
        \E newValue \in FieldValues(field) :
        /\ (field \in OtherFields) = (ext # NoExt)
        /\ Method("with", [nargs |-> 2, field |-> field, n |-> newValue, ext |-> ext],
                  with(this, 2, field, 0, newValue, ext))

WithYearMonth ==
    /\ HasInstance
    /\ \E newYear \in YearInputs, newMonth \in MonthInputs :
        Method("with", [nargs |-> 2, y |-> newYear, m |-> newMonth],
               with(this, 2, "", newYear, newMonth, NoExt))

WithYear ==
    /\ HasInstance
    /\ \E y \in YearInputs : Method("withYear", [y |-> y], withYear(this, y))

WithMonth ==
    /\ HasInstance
    /\ \E m \in MonthInputs : Method("withMonth", [m |-> m], withMonth(this, m))

PlusAmount ==
    /\ HasInstance
    /\ \E ext \in ExtResponses :
        Method("plus", [nargs |-> 1, ext |-> ext], plus(this, 1, 0, "", ext))

PlusAmountUnit ==
    /\ HasInstance
    /\ \E n \in UnitAmounts, unit \in TemporalUnits, ext \in ExtResponses :
        Method("plus", [nargs |-> 2, n |-> n, unit |-> unit, ext |-> ext],
               plus(this, 2, n, unit, ext))

PlusYears ==
    /\ HasInstance
    /\ \E n \in Amounts : Method("plusYears", [n |-> n], plusYears(this, n))

PlusMonths ==
    /\ HasInstance
    /\ \E n \in Amounts : Method("plusMonths", [n |-> n], plusMonths(this, n))

MinusAmount ==
    /\ HasInstance
    /\ \E ext \in ExtResponses :
        Method("minus", [nargs |-> 1, ext |-> ext], minus(this, 1, 0, "", ext, NoExt))

MinusAmountUnit ==
    /\ HasInstance
    /\ \E n \in UnitAmounts, unit \in TemporalUnits, ext \in ExtResponses,
          ext2 \in ExtResponses \cup {NoExt} :
        \* a second answer is needed only when a second addTo is made
        /\ (ext2 # NoExt) = (n = MIN_SAFE_INTEGER /\ ext.kind # "err")
        /\ Method("minus", [nargs |-> 2, n |-> n, unit |-> unit, ext |-> ext,
                            ext2 |-> ext2,
                            first |-> _minusAmountUnit_firstAmount(n)],
                  minus(this, 2, n, unit, ext, ext2))

MinusYears ==
    /\ HasInstance
    /\ \E n \in Amounts :
        Method("minusYears", [n |-> n, first |-> minusYears_firstAmount(n)],
               minusYears(this, n))

MinusMonths ==
    /\ HasInstance
    /\ \E n \in Amounts :
        Method("minusMonths", [n |-> n, first |-> minusMonths_firstAmount(n)],
               minusMonths(this, n))

\* The client takes the instance a call returned as the one it holds.
Keep ==
    /\ ret.kind = "ok"
    /\ ret.obj # NULL
    /\ this' = ret.obj
    /\ ret' = NoRet
    /\ UNCHANGED <<PARSER, FROM>>

\* The client lets go of the outcome of a call.
Drop ==
    /\ ~Idle
    /\ ret' = NoRet
    /\ UNCHANGED <<this, PARSER, FROM>>

Next ==
    \/ _init
    \/ Now \/ OfNumber \/ OfMonth \/ From \/ Parse
    \/ IsSupported \/ Range \/ Get \/ GetLong \/ Equals
    \/ WithAdjuster \/ WithFieldValue \/ WithYearMonth \/ WithYear \/ WithMonth
    \/ PlusAmount \/ PlusAmountUnit \/ PlusYears \/ PlusMonths
    \/ MinusAmount \/ MinusAmountUnit \/ MinusYears \/ MinusMonths
    \/ Keep \/ Drop

Spec == Init /\ [][Next]_vars

-----------------------------------------------------------------------------
(* Shapes *)

Valid(o) ==
    /\ o # NULL
    /\ Year_MIN_VALUE <= o._year /\ o._year <= Year_MAX_VALUE
    /\ 1 <= o._month /\ o._month <= 12

TypeOK ==
    /\ this = NULL \/ DOMAIN this = {"_year", "_month"}
    /\ DOMAIN ret = DOMAIN NoRet
    /\ PARSER \in 0..MaxInit
    /\ FROM = PARSER

\* Two outcomes are the same: both return equal values, or both fail alike.
SameOutcome(r, o) ==
    /\ r.kind = o.kind
    /\ r.kind = "ok" => r.obj = o.obj
    /\ r.kind = "err" => r.err = o.err

InYearRange(y) == Year_MIN_VALUE <= y /\ y <= Year_MAX_VALUE

InMonthRange(m) == 1 <= m /\ m <= 12

-----------------------------------------------------------------------------
(* Properties *)

\* C1: every instance a public operation has returned, and every instance
\* the client holds, has its year within [MIN_YEAR, MAX_YEAR] and its month
\* within 1..12.
C1_AllInstancesValid ==
    /\ this # NULL => Valid(this)
    /\ (ret.kind = "ok" /\ ret.obj # NULL) => Valid(ret.obj)

\* C2: of(y, m) succeeds exactly when y and m are in range, the instance it
\* returns then has year y and month m, and otherwise it fails with
\* DateTimeException and returns nothing.
C2_OfValidates ==
    ret.op = "of" =>
        LET m == IF ret.month = "" THEN ret.m ELSE Month_value(ret.month)
        IN  /\ (ret.kind = "ok") = (InYearRange(ret.y) /\ InMonthRange(m))
            /\ ret.kind = "ok" =>
                  /\ ret.ref = "new"
                  /\ year(ret.obj) = ret.y
                  /\ monthValue(ret.obj) = m
            /\ ret.kind # "ok" =>
                  /\ ret.kind = "err"
                  /\ ret.err = "DateTimeException"
                  /\ ret.obj = NULL

\* of() has accepted the largest year with the last month.
C2_Witness ==
    /\ ret.op = "of"
    /\ ret.kind = "ok"
    /\ ret.y = Year_MAX_VALUE
    /\ ret.m = 12

\* The operations called on an instance.
InstanceOps ==
    {"with", "withYear", "withMonth", "plus", "plusYears", "plusMonths",
     "minus", "minusYears", "minusMonths", "get", "getLong", "range",
     "isSupported", "equals"}

\* C3: after a call on an instance, whether it returned or failed, the
\* receiver has the year and the month it had before the call.
C3_ReceiverUnchanged ==
    ret.op \in InstanceOps =>
        /\ this # NULL
        /\ year(this) = year(ret.recv)
        /\ monthValue(this) = monthValue(ret.recv)

\* A call has returned an instance that differs from its receiver.
C3_Witness ==
    /\ ret.op \in {"with", "plusMonths", "minusYears"}
    /\ ret.kind = "ok"
    /\ ret.ref = "new"
    /\ ret.obj # ret.recv

\* C4: when plusMonths(n) on a valid instance v has succeeded, minusMonths(n)
\* on the instance it returned succeeds and returns a value equal to v.
C4_PlusMinusMonthsRoundTrip ==
    (ret.op = "plusMonths" /\ Valid(ret.recv) /\ ret.kind = "ok") =>
        LET back == minusMonths(ret.obj, ret.n)
        IN  /\ back.kind = "ok"
            /\ equals(back.obj, [kind |-> "YearMonth", obj |-> ret.recv])

\* plusMonths has gone back over a year boundary.
C4_Witness ==
    /\ ret.op = "plusMonths"
    /\ Valid(ret.recv)
    /\ ret.kind = "ok"
    /\ ret.n < 0
    /\ year(ret.obj) < year(ret.recv)

\* C5: for a valid (y, m) and any n, with total = y*12 + (m-1) + n,
\* plusMonths(n) returns the year-month (floorDiv(total, 12),
\* floorMod(total, 12) + 1), the one valid year-month whose month count is
\* total, when that year is within [MIN_YEAR, MAX_YEAR], and fails otherwise;
\* December plus one month is January of the next year, and January of year
\* 0 minus one month is December of year -1.
C5_PlusMonthsFloor ==
    (ret.op = "plusMonths" /\ Valid(ret.recv)) =>
        LET total == year(ret.recv) * 12 + (monthValue(ret.recv) - 1) + ret.n
            fits == \E q \in Year_MIN_VALUE..Year_MAX_VALUE, r \in 0..11 :
                        q * 12 + r = total
        IN  /\ (ret.kind = "ok") = fits
            /\ ret.kind # "ok" => ret.kind = "err" /\ ret.obj = NULL
            /\ ret.kind = "ok" =>
                  /\ InMonthRange(monthValue(ret.obj))
                  /\ year(ret.obj) * 12 + (monthValue(ret.obj) - 1) = total
            /\ (ret.recv = YearMonth(0, 12) /\ ret.n = 1) =>
                  ret.obj = YearMonth(1, 1)
            /\ (ret.recv = YearMonth(0, 1) /\ ret.n = -1) =>
                  ret.obj = YearMonth(-1, 12)

\* January of year 0 has been taken back one month.
C5_Witness ==
    /\ ret.op = "plusMonths"
    /\ ret.recv = YearMonth(0, 1)
    /\ ret.n = -1
    /\ ret.obj = YearMonth(-1, 12)

\* The units plus(amount, unit) names as handled by YearMonth.
HandledUnits == {"MONTHS", "YEARS", "DECADES", "CENTURIES", "MILLENNIA", "ERAS"}

\* What plus(n, unit) is documented to amount to.
PlusByUnit(self, n, unit) ==
    CASE unit = "MONTHS" -> plusMonths(self, n)
      [] unit = "YEARS" -> plusYears(self, n)
      [] unit \in {"DECADES", "CENTURIES", "MILLENNIA"} ->
            LET k == CASE unit = "DECADES" -> 10
                       [] unit = "CENTURIES" -> 100
                       [] OTHER -> 1000
            IN  IF k * n > MAX_SAFE_INTEGER \/ k * n < MIN_SAFE_INTEGER
                THEN Throw(self, "ArithmeticException")
                ELSE plusYears(self, k * n)
      [] OTHER ->
            with(self, 2, "ERA", 0, (IF year(self) < 1 THEN 0 ELSE 1) + n, NoExt)

\* C6: plus(n, unit) with one of the six handled units is dispatched inside
\* YearMonth and has the outcome of plusMonths(n), plusYears(n),
\* plusYears(10n), plusYears(100n), plusYears(1000n) or with(ERA, era + n).
C6_PlusDispatchesDirectly ==
    (ret.op = "plus" /\ ret.nargs = 2 /\ Valid(ret.recv)
        /\ ret.unit \in HandledUnits) =>
        /\ ret.via = "direct"
        /\ SameOutcome(ret, PlusByUnit(ret.recv, ret.n, ret.unit))

\* C7: getLong on a valid (y, m) returns m for MONTH_OF_YEAR, y*12 + (m-1)
\* for PROLEPTIC_MONTH, 1-y if y < 1 else y for YEAR_OF_ERA, y for YEAR and
\* 0 if y < 1 else 1 for ERA; any other ChronoField fails with
\* UnsupportedTemporalTypeException.
C7_GetLongValues ==
    (ret.op = "getLong" /\ Valid(ret.recv) /\ ret.field \in ChronoFields) =>
        LET y == year(ret.recv)
            m == monthValue(ret.recv)
            supported == {"MONTH_OF_YEAR", "PROLEPTIC_MONTH", "YEAR_OF_ERA",
                          "YEAR", "ERA"}
        IN  /\ (ret.kind = "ok") = (ret.field \in supported)
            /\ ret.field = "MONTH_OF_YEAR" => ret.val = m
            /\ ret.field = "PROLEPTIC_MONTH" => ret.val = y * 12 + (m - 1)
            /\ ret.field = "YEAR_OF_ERA" => ret.val = (IF y < 1 THEN 1 - y ELSE y)
            /\ ret.field = "YEAR" => ret.val = y
            /\ ret.field = "ERA" => ret.val = (IF y < 1 THEN 0 ELSE 1)
            /\ ret.field \notin supported =>
                  /\ ret.kind = "err"
                  /\ ret.err = "UnsupportedTemporalTypeException"
            /\ (ret.recv = YearMonth(0, 6) /\ ret.field = "ERA") => ret.val = 0
            /\ (ret.recv = YearMonth(0, 6) /\ ret.field = "YEAR_OF_ERA") => ret.val = 1
            /\ (ret.recv = YearMonth(1, 6) /\ ret.field = "ERA") => ret.val = 1
            /\ (ret.recv = YearMonth(1, 6) /\ ret.field = "YEAR_OF_ERA") => ret.val = 1

\* getLong has answered the year-of-era of an instance of year 0.
C7_Witness ==
    /\ ret.op = "getLong"
    /\ ret.recv = YearMonth(0, 6)
    /\ ret.field = "YEAR_OF_ERA"
    /\ ret.kind = "ok"

\* C8: on a valid instance get(PROLEPTIC_MONTH) fails, while
\* getLong(PROLEPTIC_MONTH) on the same instance returns the proleptic month.
C8_GetRejectsProlepticMonth ==
    /\ (ret.op = "get" /\ ret.field = "PROLEPTIC_MONTH" /\ Valid(ret.recv)) =>
          /\ ret.kind = "err"
          /\ getLong(ret.recv, "PROLEPTIC_MONTH", Fail("")).kind = "ok"
    /\ (ret.op = "getLong" /\ ret.field = "PROLEPTIC_MONTH" /\ Valid(ret.recv)) =>
          /\ ret.kind = "ok"
          /\ ret.val = year(ret.recv) * 12 + (monthValue(ret.recv) - 1)

\* get(PROLEPTIC_MONTH) has been called on a valid instance.
C8_Witness ==
    /\ ret.op = "get"
    /\ ret.field = "PROLEPTIC_MONTH"
    /\ Valid(ret.recv)
    /\ ret.kind = "err"

\* C9: from(t) returns t itself when t is a YearMonth; otherwise it returns
\* of(t.get(YEAR), t.get(MONTH_OF_YEAR)), and when an extraction or the
\* validation fails it fails with DateTimeException, whatever was thrown,
\* and returns no instance.
C9_FromConverts ==
    ret.op = "from" =>
        IF ret.t.isYearMonth
        THEN /\ ret.kind = "ok"
             /\ ret.ref = "arg"
             /\ ret.obj = ret.t.obj
        ELSE LET extracted == ret.t.year.kind = "ok" /\ ret.t.month.kind = "ok"
                 good == /\ extracted
                         /\ InYearRange(ret.t.year.val)
                         /\ InMonthRange(ret.t.month.val)
             IN  /\ (ret.kind = "ok") = good
                 /\ ret.kind = "ok" =>
                       /\ ret.obj = YearMonth(ret.t.year.val, ret.t.month.val)
                       /\ Valid(ret.obj)
                 /\ ret.kind # "ok" =>
                       /\ ret.kind = "err"
                       /\ ret.err = "DateTimeException"
                       /\ ret.obj = NULL

\* from() has met an accessor whose extraction threw something else.
C9_Witness ==
    /\ ret.op = "from"
    /\ ~ret.t.isYearMonth
    /\ ret.t.year.kind = "ok"
    /\ ret.t.month.kind = "err"
    /\ ret.t.month.err = "ArithmeticException"
    /\ ret.kind = "err"

\* C10: for a valid instance and an amount n other than the most negative
\* one, minusYears(n) has the outcome of plusYears(-n), minusMonths(n) that
\* of plusMonths(-n), and minus(n, unit) that of plus(-n, unit).
C10_MinusIsNegatedPlus ==
    (Valid(ret.recv) /\ ret.n # MIN_SAFE_INTEGER) =>
        /\ ret.op = "minusYears" => SameOutcome(ret, plusYears(ret.recv, -ret.n))
        /\ ret.op = "minusMonths" => SameOutcome(ret, plusMonths(ret.recv, -ret.n))
        /\ (ret.op = "minus" /\ ret.nargs = 2) =>
              SameOutcome(ret, plus(ret.recv, 2, -ret.n, ret.unit, ret.ext))

\* minusYears has moved a valid instance to another year.
C10_Witness ==
    /\ ret.op = "minusYears"
    /\ Valid(ret.recv)
    /\ ret.n = 1
    /\ ret.kind = "ok"
    /\ year(ret.obj) = year(ret.recv) - 1

C12_PlusYearsExact ==
    ret.op = "plusYears" =>
        LET sum == year(ret.recv) + ret.n
        IN  /\ ret.n = 0 =>
                  /\ ret.kind = "ok"
                  /\ ret.ref = "this"
                  /\ ret.obj = ret.recv
            /\ ret.n # 0 =>
                  /\ (ret.kind = "ok") = InYearRange(sum)
                  /\ ret.kind # "ok" => ret.kind = "err" /\ ret.obj = NULL
            /\ ret.kind = "ok" =>
                  /\ year(ret.obj) = sum
                  /\ monthValue(ret.obj) = monthValue(ret.recv)

\* plusYears has moved an instance from the first year to the last.
C12_Witness ==
    /\ ret.op = "plusYears"
    /\ year(ret.recv) = Year_MIN_VALUE
    /\ ret.n = Year_MAX_VALUE - Year_MIN_VALUE
    /\ ret.kind = "ok"
    /\ year(ret.obj) = Year_MAX_VALUE

\* C13: on a valid receiver v, with(PROLEPTIC_MONTH, p) for p within the
\* field's bounds returns the valid instance r with
\* r.year * 12 + (r.month - 1) = p, whatever v is, and v itself when p is
\* already v's proleptic month; for p outside the bounds it fails with
\* DateTimeException and produces no instance.
C13_WithProlepticMonth ==
    (ret.op = "with" /\ ret.nargs = 2 /\ ret.field = "PROLEPTIC_MONTH"
        /\ Valid(ret.recv)) =>
        IF FieldMin("PROLEPTIC_MONTH") <= ret.n /\ ret.n <= FieldMax("PROLEPTIC_MONTH")
        THEN /\ ret.kind = "ok"
             /\ Valid(ret.obj)
             /\ year(ret.obj) * 12 + (monthValue(ret.obj) - 1) = ret.n
             /\ ret.n = year(ret.recv) * 12 + (monthValue(ret.recv) - 1) =>
                    ret.ref = "this" /\ ret.obj = ret.recv
        ELSE /\ ret.kind = "err"
             /\ ret.err = "DateTimeException"
             /\ ret.via = "direct"
             /\ ret.obj = NULL

\* with(PROLEPTIC_MONTH, p) has moved an instance to a month of another
\* year, before year 0.
C13_Witness ==
    /\ ret.op = "with" /\ ret.nargs = 2 /\ ret.field = "PROLEPTIC_MONTH"
    /\ Valid(ret.recv)
    /\ year(ret.recv) = 1
    /\ ret.n = -2
    /\ ret.kind = "ok"
    /\ ret.obj = YearMonth(-1, 11)

\* C14: on a valid receiver v, with(YEAR_OF_ERA, e) for e within the field's
\* bounds either fails with DateTimeException or returns an instance with
\* v's month and v's era whose year-of-era is e: its year is 1 - e when
\* v.year < 1 and e otherwise.
C14_WithYearOfEra ==
    (ret.op = "with" /\ ret.nargs = 2 /\ ret.field = "YEAR_OF_ERA"
        /\ Valid(ret.recv)
        /\ FieldMin("YEAR_OF_ERA") <= ret.n /\ ret.n <= FieldMax("YEAR_OF_ERA")) =>
        \/ ret.kind = "err" /\ ret.err = "DateTimeException" /\ ret.obj = NULL
        \/ /\ ret.kind = "ok"
           /\ monthValue(ret.obj) = monthValue(ret.recv)
           /\ getLong(ret.obj, "ERA", Fail("")) = getLong(ret.recv, "ERA", Fail(""))
           /\ getLong(ret.obj, "YEAR_OF_ERA", Fail("")) = Val(ret.n)
           /\ year(ret.obj) = IF year(ret.recv) < 1 THEN 1 - ret.n ELSE ret.n

\* with(YEAR_OF_ERA, e) has changed the year of an instance of the era
\* before year 1.
C14_Witness ==
    /\ ret.op = "with" /\ ret.nargs = 2 /\ ret.field = "YEAR_OF_ERA"
    /\ Valid(ret.recv)
    /\ year(ret.recv) = 0
    /\ ret.n = Year_MAX_VALUE + 1
    /\ ret.kind = "ok"
    /\ year(ret.obj) = 0 - Year_MAX_VALUE

\* C15: on a valid receiver v, with(ERA, e) for e in {0, 1} returns v itself
\* when v's era is e; otherwise it fails with DateTimeException when
\* 1 - v.year is outside the YEAR range, and else returns the instance with
\* year 1 - v.year, whose era is e and whose month and year-of-era are v's.
C15_WithEra ==
    (ret.op = "with" /\ ret.nargs = 2 /\ ret.field = "ERA"
        /\ Valid(ret.recv) /\ ret.n \in {0, 1}) =>
        IF getLong(ret.recv, "ERA", Fail("")) = Val(ret.n)
        THEN ret.kind = "ok" /\ ret.ref = "this" /\ ret.obj = ret.recv
        ELSE IF InYearRange(1 - year(ret.recv))
             THEN /\ ret.kind = "ok"
                  /\ year(ret.obj) = 1 - year(ret.recv)
                  /\ getLong(ret.obj, "ERA", Fail("")) = Val(ret.n)
                  /\ monthValue(ret.obj) = monthValue(ret.recv)
                  /\ getLong(ret.obj, "YEAR_OF_ERA", Fail(""))
                         = getLong(ret.recv, "YEAR_OF_ERA", Fail(""))
             ELSE /\ ret.kind = "err"
                  /\ ret.err = "DateTimeException"
                  /\ ret.obj = NULL

\* with(ERA, 0) has flipped an instance of year 1 to year 0.
C15_Witness ==
    /\ ret.op = "with" /\ ret.nargs = 2 /\ ret.field = "ERA"
    /\ Valid(ret.recv)
    /\ year(ret.recv) = 1
    /\ ret.n = 0
    /\ ret.kind = "ok"
    /\ year(ret.obj) = 0
    /\ monthValue(ret.obj) = monthValue(ret.recv)

\* C16: on a valid receiver, range(YEAR_OF_ERA) is 1..MAX_YEAR when
\* year >= 1 and 1..MAX_YEAR + 1 when year < 1; getLong(YEAR_OF_ERA) lies
\* within that range, and get(YEAR_OF_ERA) returns it without failing.
C16_YearOfEraInRange ==
    (ret.field = "YEAR_OF_ERA" /\ Valid(ret.recv)) =>
        LET r == range(ret.recv, "YEAR_OF_ERA", RngFail(""))
            v == getLong(ret.recv, "YEAR_OF_ERA", Fail(""))
        IN  /\ ret.op = "range" =>
                  /\ ret.kind = "ok"
                  /\ ret.lo = 1
                  /\ ret.hi = IF year(ret.recv) >= 1 THEN Year_MAX_VALUE
                                                     ELSE Year_MAX_VALUE + 1
            /\ ret.op = "getLong" =>
                  /\ ret.kind = "ok"
                  /\ r.lo <= ret.val /\ ret.val <= r.hi
            /\ ret.op = "get" =>
                  /\ ret.kind = "ok"
                  /\ ret.val = v.val
                  /\ r.lo <= ret.val /\ ret.val <= r.hi

\* get(YEAR_OF_ERA) has returned MAX_YEAR + 1 for an instance of the first
\* year.
C16_Witness ==
    /\ ret.op = "get" /\ ret.field = "YEAR_OF_ERA"
    /\ Valid(ret.recv)
    /\ year(ret.recv) = Year_MIN_VALUE
    /\ ret.kind = "ok"
    /\ ret.val = Year_MAX_VALUE + 1

\* C17: with the amount MIN_SAFE_INTEGER, each of minusYears, minusMonths
\* and minus(amount, unit) hands MAX_SAFE_INTEGER to its first plus call
\* (and 1 to the second), not a negated amount; minusYears and minusMonths
\* hand on the same amount and end in the same kind of outcome.
C17_MinusBoundaryViaMax ==
    (ret.n = MIN_SAFE_INTEGER
        /\ (ret.op \in {"minusYears", "minusMonths"}
               \/ (ret.op = "minus" /\ ret.nargs = 2))) =>
        /\ ret.first = MAX_SAFE_INTEGER
        /\ minusYears_firstAmount(ret.n) = minusMonths_firstAmount(ret.n)
        /\ minusYears(ret.recv, ret.n).kind = minusMonths(ret.recv, ret.n).kind

\* C18: over any sequence of _init and parse calls, PARSER and FROM, once
\* built by _init, are never assigned again; a parse(text) without a
\* formatter of its own uses PARSER as it stands, and one made before _init
\* has no formatter and fails without producing a value.
C18_ParserBuiltOnce ==
    [][/\ PARSER # 0 => PARSER' = PARSER
       /\ FROM # 0 => FROM' = FROM
       /\ (Idle /\ ret'.op = "parse" /\ ret'.nargs = 1) =>
             /\ ret'.formatter = PARSER
             /\ PARSER = 0 => ret'.kind = "err" /\ ret'.obj = NULL]_vars

====
